---- MODULE Spec2Model ----
(***************************************************************************)
(* eve-l-preview (src/src/main.rs): thumbnail overlays of EVE windows on   *)
(* an X11 display.  The model covers the registry `eves`, the per-window   *)
(* Thumbnail, the server-side handles the program allocates and releases,  *)
(* and the dispatch loop of main().                                        *)
(*                                                                         *)
(* One action is one turn of the loop: the change on the display that      *)
(* raises a notification together with the whole of handle_event for it.   *)
(* Every `?` of the source is a place where the handler may return early;  *)
(* the input `f` of an operation names the fallible step that fails        *)
(* (0: none).                                                              *)
(***************************************************************************)
EXTENDS Integers, Sequences, FiniteSets, TLC

(* ------------------------------ bounds --------------------------------- *)
\* source windows of the display
MaxWin == 2
\* identifiers generate_id can hand out: one per thumbnail construction
MaxId == 3
\* requests that fail in one run
MaxFaults == 1
\* root coordinates of pointer events are 0..MaxX, 0..MaxY
MaxX == 2
MaxY == 0
\* overlay size (Config.width, Config.height; WIDTH and HEIGHT of the environment)
ConfigWidth == 1
ConfigHeight == 1

Wins == 1..MaxWin
Ids == 1..MaxId
Xs == 0..MaxX
Ys == 0..MaxY
Buttons == {1, 3}

\* a step that makes no handle
None == "none"

\* Option: None is the empty sequence, Some(v) the sequence of v alone
Nothing == <<>>
Some(v) == <<v>>

(* ------------------------------ titles --------------------------------- *)
\* WM_NAME values are sequences of characters
EVE == <<"E", "V", "E">>
EvePrefix == <<"E", "V", "E", " ", "-", " ">>
Titles == { EVE, EvePrefix \o <<"A">>, <<"E", "V", "E", "-", "A">> }

\* str::strip_prefix
StripPrefix(s, p) ==
    IF Len(s) >= Len(p) /\ SubSeq(s, 1, Len(p)) = p
    THEN Some(SubSeq(s, Len(p) + 1, Len(s)))
    ELSE Nothing

\* is_window_eve taking every title that begins with "EVE"
is_window_eve_loose(title) == StripPrefix(title, EVE)

\* is_window_eve (lines 536-543), on the title read from the window: Some
\* display name, or Nothing
is_window_eve(title) ==
    IF StripPrefix(title, EvePrefix) # Nothing THEN StripPrefix(title, EvePrefix)
    ELSE IF title = EVE THEN Some(<<>>)
    ELSE Nothing

\* The value of WM_NAME is a string of bytes; line 536 decodes it with
\* String::from_utf8_lossy.  Bytes: space, '-', 'A', and 0xC3 0xA9, which is
\* the UTF-8 encoding of U+00E9 when the two follow each other.
MaxNameLen == 3
NameBytes == {32, 45, 65, 195, 169}
EveBytes == <<69, 86, 69, 32, 45, 32>>

\* the characters of the code points the bytes above decode to
Char(cp) ==
    CASE cp = 32 -> " "
      [] cp = 45 -> "-"
      [] cp = 65 -> "A"
      [] cp = 69 -> "E"
      [] cp = 86 -> "V"
      [] cp = 233 -> "U+00E9"
      [] cp = 65533 -> "U+FFFD"

RECURSIVE DecodeFrom(_, _)
\* from_utf8_lossy from the k-th byte on, for bytes below 0xE0: an ASCII byte is
\* its character, a two-byte lead (0xC2..0xDF) followed by a continuation byte
\* (0x80..0xBF) is one character, any other byte becomes U+FFFD
DecodeFrom(v, k) ==
    IF k > Len(v) THEN <<>>
    ELSE IF v[k] < 128 THEN <<Char(v[k])>> \o DecodeFrom(v, k + 1)
    ELSE IF v[k] \in 194..223 /\ k < Len(v) /\ v[k + 1] \in 128..191
    THEN <<Char((v[k] % 32) * 64 + (v[k + 1] % 64))>> \o DecodeFrom(v, k + 2)
    ELSE <<Char(65533)>> \o DecodeFrom(v, k + 1)

\* line 536
from_utf8_lossy(v) == DecodeFrom(v, 1)

\* the byte strings of at most n bytes of NameBytes
RECURSIVE ByteStrings(_)
ByteStrings(n) ==
    IF n = 0 THEN { <<>> }
    ELSE ByteStrings(n - 1) \cup
         { Append(s, b) : s \in ByteStrings(n - 1), b \in NameBytes }

\* values of WM_NAME: the beginnings of "EVE - ", that prefix itself and the
\* prefix after a space, each followed by at most MaxNameLen bytes
WmNames ==
    { h \o s : h \in { SubSeq(EveBytes, 1, k) : k \in 0..Len(EveBytes) }
                     \cup { <<32>> \o EveBytes },
               s \in ByteStrings(MaxNameLen) }

(* ---------------------------- arithmetic ------------------------------- *)
\* u16 subtraction (wrapping), the `as i16` cast, and i16 division by 2
\* (Rust division truncates toward zero)
WrapU16(v) == v % 65536
AsI16(v) == IF (v % 65536) >= 32768 THEN (v % 65536) - 65536 ELSE v % 65536
TruncDiv2(v) == IF v >= 0 THEN v \div 2 ELSE -((-v) \div 2)

\* A u32 is kept as <<its high 16 bits, its low 16 bits>>.
Word(hi, lo) == <<hi, lo>>

RECURSIVE BitOr(_, _)
\* `|` on naturals
BitOr(x, y) ==
    IF x = 0 THEN y
    ELSE IF y = 0 THEN x
    ELSE (IF x % 2 = 1 \/ y % 2 = 1 THEN 1 ELSE 0) + 2 * BitOr(x \div 2, y \div 2)

\* `|` on u32
OrWord(u, v) == Word(BitOr(u[1], v[1]), BitOr(u[2], v[2]))

\* `(argb >> n) & 0xFF` for n = 24, 16, 8, 0
Channel(argb, n) ==
    IF n >= 16 THEN (argb[1] \div (2 ^ (n - 16))) % 256
    ELSE (argb[2] \div (2 ^ n)) % 256

\* `v << n` on u32 for v below 2^16 and n = 24, 16, 8, 0: the bits shifted
\* beyond bit 31 are lost
Shl(v, n) ==
    IF n >= 16 THEN Word((v * (2 ^ (n - 16))) % 65536, 0)
    ELSE Word((v * (2 ^ n)) \div 65536, (v * (2 ^ n)) % 65536)

\* premultiply_argb32 dividing by 256 with a shift
premultiply_argb32_shifted(argb) ==
    LET a == Channel(argb, 24)
    IN OrWord(OrWord(OrWord(Shl(a, 24),
                            Shl((Channel(argb, 16) * a) \div 256, 16)),
                     Shl((Channel(argb, 8) * a) \div 256, 8)),
              Shl((Channel(argb, 0) * a) \div 256, 0))

\* lines 78-89; the products are at most 255 * 255 and do not overflow u32
premultiply_argb32(argb) ==
    LET a == Channel(argb, 24)
        r == Channel(argb, 16)
        g == Channel(argb, 8)
        b == Channel(argb, 0)
        r_p == (r * a) \div 255
        g_p == (g * a) \div 255
        b_p == (b * a) \div 255
    IN OrWord(OrWord(OrWord(Shl(a, 24), Shl(r_p, 16)), Shl(g_p, 8)), Shl(b_p, 0))

\* 0xAARRGGBB
Argb(a, r, g, b) == Word(a * 256 + r, g * 256 + b)

\* a value of TEXT_FOREGROUND: alpha a, and c in the channel at bit n
ArgbWith(a, c, n) ==
    IF n = 16 THEN Argb(a, c, 0, 0)
    ELSE IF n = 8 THEN Argb(a, 255, c, 255)
    ELSE Argb(a, 128, 128, c)

\* line 106: TEXT_FOREGROUND when the variable is not set
DefaultEnv == [TEXT_FOREGROUND |-> Argb(255, 255, 255, 255)]

\* geometry of a source window as get_geometry replies it
SrcGeom(w) ==
    IF w = 1 THEN [x |-> 0, y |-> 0, width |-> ConfigWidth, height |-> ConfigHeight]
    ELSE [x |-> 0, y |-> 0, width |-> ConfigWidth + 2, height |-> ConfigHeight]

(* ------------------------------- state --------------------------------- *)
VARIABLES
    pc,       \* "config": before Config::new (line 757); "configured": after it;
              \* "start": before get_eves; "loop": in the loop of main;
              \* "aborted": main returned the error of get_eves (line 774);
              \* "exited": main returned the error of wait_for_event (line 776)
    wins,     \* the display: source window that exists -> its title and owner
    eves,     \* the registry: source window -> Thumbnail
    order,    \* iteration order of the HashMap `eves`
    res,      \* server side: handles the program created and has not released
    xwin,     \* server side: overlay window -> [mapped, x, y]
    reqs,     \* requests issued while handling the last event
    early,    \* windows created after line 763 and before the scan of line 774:
              \* listed in _NET_CLIENT_LIST, their CreateNotify still to come
    config,   \* Config, fixed for the run
    env,      \* the environment of the process, as parse_num reads it
    held,     \* the pointer button held down (0: none); one at a time
    faults    \* requests that have failed so far

vars == <<pc, wins, eves, order, res, xwin, reqs, early, config, env, held, faults>>

\* owner of a window as check_and_create_window sees it: "wine" when the
\* executable of its process is a wine preloader (and when _NET_WM_PID is absent
\* or the executable cannot be resolved, which the code treats alike), "other"
\* when it is known to be something else
Owners == {"wine", "other"}

\* lines 553-574: only a window known not to run through wine is refused
IsCandidate(owner) == owner # "other"

Handle(kind, id) == <<kind, id>>

\* the eight handles a Thumbnail owns, in the order Drop releases them
ThumbKinds == <<"damage", "overlay_gc", "overlay_picture", "src_picture",
                "dst_picture", "border_fill", "overlay_pixmap", "window">>

HandlesOf(t) == { Handle(ThumbKinds[k], t[ThumbKinds[k]]) : k \in DOMAIN ThumbKinds }

\* the server-side state the requests act on, threaded through the operations
World == [res |-> res, xwin |-> xwin, reqs |-> <<>>]

\* generate_id: an identifier the program holds no handle for; identifiers are
\* interchangeable, the least free one stands for any of them
InUse(X) == { h[2] : h \in X.res }
FreshId(X) == CHOOSE n \in Ids \ InUse(X) : \A m \in Ids \ InUse(X) : n <= m

\* a request as the log keeps it: `ok` is FALSE when the call returned an error
Req(op, kind, id, arg, ok) ==
    [op |-> op, kind |-> kind, id |-> id, arg |-> arg, ok |-> ok]

Log(X, r) == [X EXCEPT !.reqs = Append(@, r)]

Restrict(f, S) == [k \in S |-> f[k]]

(* ------------------------- Drop for Thumbnail -------------------------- *)
\* lines 480-491: the releases are chained with `?` in one closure, then flush
DropSteps ==
    << [op |-> "damage_destroy",      kind |-> "damage"],
       [op |-> "free_gc",             kind |-> "overlay_gc"],
       [op |-> "render_free_picture", kind |-> "overlay_picture"],
       [op |-> "render_free_picture", kind |-> "src_picture"],
       [op |-> "render_free_picture", kind |-> "dst_picture"],
       [op |-> "render_free_picture", kind |-> "border_fill"],
       [op |-> "free_pixmap",         kind |-> "overlay_pixmap"],
       [op |-> "destroy_window",      kind |-> "window"],
       [op |-> "flush",               kind |-> None] >>

DropFails == 0..Len(DropSteps)

RECURSIVE DropFrom(_, _, _, _)
\* step k of the closure, with step fd failing
DropFrom(t, X, fd, k) ==
    IF k > Len(DropSteps) THEN X
    ELSE LET s == DropSteps[k]
             id == IF s.kind = None THEN 0 ELSE t[s.kind]
             r == Req(s.op, s.kind, id, <<>>, k # fd)
         IN IF k = fd THEN Log(X, r)
            ELSE DropFrom(t,
                    [Log(X, r) EXCEPT
                        !.res = @ \ {Handle(s.kind, id)},
                        !.xwin = IF s.kind = "window"
                                 THEN Restrict(@, DOMAIN @ \ {id}) ELSE @],
                    fd, k + 1)

Drop(t, X, fd) == DropFrom(t, X, fd, 1)

(* ----------------- check_and_create_window, Thumbnail::new ------------- *)
\* The fallible steps of check_and_create_window (lines 552-591) with those of
\* Thumbnail::new (lines 161-277) in program order; `makes` is the handle that
\* exists on the server once the step has succeeded.
CreateSteps ==
    << [line |-> 552, op |-> "intern_atom",               makes |-> None],
       [line |-> 554, op |-> "get_property",              makes |-> None],
       [line |-> 576, op |-> "change_window_attributes",  makes |-> None],
       [line |-> 532, op |-> "is_window_eve",             makes |-> None],
       [line |-> 582, op |-> "change_window_attributes",  makes |-> None],
       [line |-> 588, op |-> "generate_id",               makes |-> None],
       [line |-> 589, op |-> "open_font",                 makes |-> "font"],
       [line |-> 161, op |-> "get_geometry",              makes |-> None],
       [line |-> 165, op |-> "generate_id",               makes |-> None],
       [line |-> 166, op |-> "create_window",             makes |-> "window"],
       [line |-> 185, op |-> "intern_atom",               makes |-> None],
       [line |-> 189, op |-> "change_property32",         makes |-> None],
       [line |-> 197, op |-> "intern_atom",               makes |-> None],
       [line |-> 198, op |-> "change_property8",          makes |-> None],
       [line |-> 206, op |-> "intern_atom",               makes |-> None],
       [line |-> 207, op |-> "intern_atom",               makes |-> None],
       [line |-> 211, op |-> "change_property32",         makes |-> None],
       [line |-> 219, op |-> "map_window",                makes |-> None],
       [line |-> 221, op |-> "generate_id",               makes |-> None],
       [line |-> 222, op |-> "render_create_solid_fill",  makes |-> "border_fill"],
       [line |-> 224, op |-> "get_pictformat",            makes |-> None],
       [line |-> 225, op |-> "generate_id",               makes |-> None],
       [line |-> 226, op |-> "generate_id",               makes |-> None],
       [line |-> 227, op |-> "render_create_picture",     makes |-> "src_picture"],
       [line |-> 228, op |-> "render_create_picture",     makes |-> "dst_picture"],
       [line |-> 230, op |-> "generate_id",               makes |-> None],
       [line |-> 231, op |-> "generate_id",               makes |-> None],
       [line |-> 232, op |-> "create_pixmap",             makes |-> "overlay_pixmap"],
       [line |-> 236, op |-> "get_pictformat",            makes |-> None],
       [line |-> 233, op |-> "render_create_picture",     makes |-> "overlay_picture"],
       [line |-> 240, op |-> "generate_id",               makes |-> None],
       [line |-> 241, op |-> "create_gc",                 makes |-> "overlay_gc"],
       [line |-> 250, op |-> "generate_id",               makes |-> None],
       [line |-> 251, op |-> "damage_create",             makes |-> "damage"],
       [line |-> 384, op |-> "render_composite",          makes |-> None],
       [line |-> 398, op |-> "image_text8",               makes |-> None],
       [line |-> 591, op |-> "close_font",                makes |-> None] >>

\* The failing steps that differ in what they leave behind: the first step, and
\* each step that follows a decision (lines 569, 581), a consumed identifier
\* (line 588), a new handle, the mapping of the window, or the existence of the
\* Thumbnail value (line 253).  A failure at any other step leaves the same
\* state as one of these.
CreateFails ==
    {0, 1} \cup
    { k + 1 : k \in { j \in 1..(Len(CreateSteps) - 1) :
                        \/ CreateSteps[j].makes # None
                        \/ CreateSteps[j].line \in {554, 532, 588, 219} } }

\* position of a step in CreateSteps by its source line
StepAt(line) == CHOOSE k \in 1..Len(CreateSteps) : CreateSteps[k].line = line

AtGetProperty == StepAt(554)
AtSelectProperty == StepAt(576)
AtReadTitle == StepAt(532)
AtSelectFocus == StepAt(582)
AtFontId == StepAt(588)
AtMapWindow == StepAt(219)
AtUpdateName == StepAt(384)

\* handles that exist when step f is reached (all of them when f = 0)
MadeBefore(f, n) ==
    { Handle(CreateSteps[k].makes, n) :
        k \in { j \in 1..Len(CreateSteps) :
                  /\ CreateSteps[j].makes # None
                  /\ (f = 0 \/ j < f) } }

\* lines 161-163: the overlay is centred over the source window
InitialX(g) == AsI16(g.x + TruncDiv2(AsI16(WrapU16(g.width - ConfigWidth))))
InitialY(g) == AsI16(g.y + TruncDiv2(AsI16(WrapU16(g.height - ConfigHeight))))

\* lines 253-276
NewThumbnailRecord(n, src, name, x, y) ==
    [ window |-> n, x |-> x, y |-> y,
      border_fill |-> n, src_picture |-> n, dst_picture |-> n,
      overlay_gc |-> n, overlay_pixmap |-> n, overlay_picture |-> n,
      character_name |-> name,
      focused |-> FALSE, visible |-> TRUE, minimized |-> FALSE,
      src |-> src, damage |-> n,
      input_state |-> [dragging |-> FALSE, drag_start |-> <<0, 0>>,
                       win_start |-> <<0, 0>>],
      \* content of overlay_pixmap: whether the border fill is drawn
      offscreen |-> [border |-> FALSE] ]

\* Thumbnail::new from open_font on, construction n failing at step f > 6 or not
\* at all: the handles made so far stay on the server; once the Thumbnail value
\* exists (line 253) an early return drops it
Construct(w, name, X, f, fd) ==
    LET n == FreshId(X)
        g == SrcGeom(w)
        x == InitialX(g)
        y == InitialY(g)
        made == MadeBefore(f, n)
        mapped == f = 0 \/ f > AtMapWindow
        X1 == [X EXCEPT
                 !.res = @ \cup made,
                 !.xwin = IF Handle("window", n) \in made
                          THEN [k \in DOMAIN @ \cup {n} |->
                                  IF k = n THEN [mapped |-> mapped, x |-> x, y |-> y]
                                  ELSE @[k]]
                          ELSE @]
        t == NewThumbnailRecord(n, w, name, x, y)
    IN  IF f = 0
        THEN [ok |-> TRUE, thumb |-> Some(t),
              X |-> [X1 EXCEPT !.res = @ \ {Handle("font", n)}]]
        ELSE IF f >= AtUpdateName
        THEN [ok |-> FALSE, thumb |-> Nothing, X |-> Drop(t, X1, fd)]
        ELSE [ok |-> FALSE, thumb |-> Nothing, X |-> X1]

\* check_and_create_window (lines 546-597) on window w, whose title and owner
\* on the display are win
check_and_create_window(w, win, X, f, fd) ==
    LET name == is_window_eve(win.title) IN
    IF f \in 1..AtGetProperty THEN [ok |-> FALSE, thumb |-> Nothing, X |-> X]
    ELSE IF ~IsCandidate(win.owner) THEN [ok |-> TRUE, thumb |-> Nothing, X |-> X]
    ELSE IF f \in AtSelectProperty..AtReadTitle THEN [ok |-> FALSE, thumb |-> Nothing, X |-> X]
    ELSE IF name = Nothing THEN [ok |-> TRUE, thumb |-> Nothing, X |-> X]
    ELSE IF f \in AtSelectFocus..AtFontId THEN [ok |-> FALSE, thumb |-> Nothing, X |-> X]
    ELSE Construct(w, name[1], X, f, fd)

(* -------------------------- Thumbnail methods -------------------------- *)
\* Each method takes the thumbnail, the world and the number f of its fallible
\* step that fails (0: none) and yields [ok, t, X].

\* the part of a handler's failing step f that falls into a callee whose steps
\* are off+1 .. off+n of the handler
Sub(f, off, n) == IF f > off /\ f <= off + n THEN f - off ELSE 0

SetMapped(X, id, m) == [X EXCEPT !.xwin[id].mapped = m]

\* visibility without the early return of lines 282-284
visibility_unguarded(t, visible, X, f) ==
    LET t1 == [t EXCEPT !.visible = visible]
        op == IF visible THEN "map_window" ELSE "unmap_window"
    IN IF f = 1
       THEN [ok |-> FALSE, t |-> t1,
             X |-> Log(X, Req(op, "window", t.window, <<>>, FALSE))]
       ELSE [ok |-> TRUE, t |-> t1,
             X |-> SetMapped(Log(X, Req(op, "window", t.window, <<>>, TRUE)),
                             t.window, visible)]

\* lines 281-292
visibility(t, visible, X, f) ==
    IF visible = t.visible THEN [ok |-> TRUE, t |-> t, X |-> X]
    ELSE LET t1 == [t EXCEPT !.visible = visible]
             op == IF visible THEN "map_window" ELSE "unmap_window"
         IN IF f = 1
            THEN [ok |-> FALSE, t |-> t1,
                  X |-> Log(X, Req(op, "window", t.window, <<>>, FALSE))]
            ELSE [ok |-> TRUE, t |-> t1,
                  X |-> SetMapped(Log(X, Req(op, "window", t.window, <<>>, TRUE)),
                                  t.window, visible)]

\* lines 383-406: clears the inset rectangle, then draws the name
update_name(t, X, f) ==
    IF f = 1 THEN [ok |-> FALSE, t |-> t, X |-> X]
    ELSE [ok |-> f # 2, t |-> t,
          X |-> Log(X, Req("image_text8", "overlay_pixmap", t.overlay_pixmap,
                           t.character_name, f # 2))]

\* lines 321-355: fills or clears the whole offscreen buffer, then update_name
border(t, focused, X, f) ==
    LET r == Req("render_composite", "overlay_picture", t.overlay_picture,
                 <<focused>>, f # 1)
    IN IF f = 1 THEN [ok |-> FALSE, t |-> t, X |-> Log(X, r)]
       ELSE update_name([t EXCEPT !.offscreen.border = focused], Log(X, r),
                        Sub(f, 1, 2))

\* lines 294-319 and 408-430: capture (get_geometry, set_picture_transform,
\* composite) then overlay (composite)
update(t, X, f) ==
    IF f \in 1..3 THEN [ok |-> FALSE, t |-> t, X |-> X]
    ELSE LET X1 == Log(X, Req("capture", "dst_picture", t.dst_picture, <<>>, TRUE))
         IN IF f = 4 THEN [ok |-> FALSE, t |-> t, X |-> X1]
            ELSE [ok |-> TRUE, t |-> t,
                  X |-> Log(X1, Req("overlay", "dst_picture", t.dst_picture, <<>>, TRUE))]

\* lines 357-381
minimized(t, X, f) ==
    LET t1 == [t EXCEPT !.minimized = TRUE]
        b == border(t1, FALSE, X, Sub(f, 0, 3))
    IN  IF ~b.ok THEN b
        ELSE IF f = 4 THEN [ok |-> FALSE, t |-> b.t, X |-> b.X]
        ELSE IF f = 5 THEN [ok |-> FALSE, t |-> b.t, X |-> b.X]
        ELSE update(b.t, Log(b.X, Req("image_text8", "overlay_pixmap",
                                      t.overlay_pixmap, <<"MINIMIZED">>, TRUE)),
                    Sub(f, 5, 4))

\* lines 432-457: intern_atom, send_event to the root, flush
focus(t, X, f) ==
    IF f = 1 THEN [ok |-> FALSE, t |-> t, X |-> X]
    ELSE IF f = 2
    THEN [ok |-> FALSE, t |-> t,
          X |-> Log(X, Req("send_event", "source", t.src, <<>>, FALSE))]
    ELSE [ok |-> f # 3, t |-> t,
          X |-> Log(X, Req("send_event", "source", t.src, <<>>, TRUE))]

\* lines 459-468: configure_window, flush, then the stored position
reposition(t, x, y, X, f) ==
    IF f = 1
    THEN [ok |-> FALSE, t |-> t,
          X |-> Log(X, Req("configure_window", "window", t.window, <<x, y>>, FALSE))]
    ELSE LET X1 == [Log(X, Req("configure_window", "window", t.window, <<x, y>>, TRUE))
                      EXCEPT !.xwin[t.window].x = x, !.xwin[t.window].y = y]
         IN IF f = 2 THEN [ok |-> FALSE, t |-> t, X |-> X1]
            ELSE [ok |-> TRUE, t |-> [t EXCEPT !.x = x, !.y = y], X |-> X1]

\* lines 470-475
is_hovered(t, x, y) ==
    /\ x >= t.x
    /\ x <= AsI16(t.x + AsI16(ConfigWidth))
    /\ y >= t.y
    /\ y <= AsI16(t.y + AsI16(ConfigHeight))

(* ----------------------------- the registry ---------------------------- *)
NoEves == <<>>

Put(E, w, t) == [k \in DOMAIN E \cup {w} |-> IF k = w THEN t ELSE E[k]]

Without(E, w) == [k \in DOMAIN E \ {w} |-> E[k]]

\* a sequence with v inserted after its first p elements
InsertAt(s, p, v) == SubSeq(s, 1, p) \o <<v>> \o SubSeq(s, p + 1, Len(s))

SeqWithout(s, v) == SelectSeq(s, LAMBDA e : e # v)

Range(s) == { s[i] : i \in DOMAIN s }

\* the orders a HashMap may iterate the keys S in
Orders(S) == { s \in [1..Cardinality(S) -> S] : Range(s) = S }

\* Iterator::find over the map: the first key in iteration order among the
\* keys S whose thumbnail satisfies the predicate, as an Option
Find(ord, S) ==
    LET hits == SelectSeq(ord, LAMBDA w : w \in S)
    IN IF hits = <<>> THEN Nothing ELSE Some(Head(hits))

\* what handling an event yields: the Result, the registry and the world
Out(ok, E, ord, X) == [ok |-> ok, eves |-> E, order |-> ord, X |-> X]

\* HashMap::insert (lines 621, 648, 671): a thumbnail already stored under the
\* key is dropped; a new key takes a place the hash decides (the input p)
Insert(E, ord, w, t, X, p, fd) ==
    IF w \in DOMAIN E
    THEN Out(TRUE, Put(E, w, t), ord, Drop(E[w], X, fd))
    ELSE Out(TRUE, Put(E, w, t), InsertAt(ord, p, w), X)

\* Remove releasing the handles of the thumbnail and leaving it in the map
Remove_keeping(E, ord, w, X, fd) ==
    IF w \in DOMAIN E
    THEN Out(TRUE, E, ord, Drop(E[w], X, fd))
    ELSE Out(TRUE, E, ord, X)

\* HashMap::remove (line 652): the thumbnail removed is dropped
Remove(E, ord, w, X, fd) ==
    IF w \in DOMAIN E
    THEN Out(TRUE, Without(E, w), SeqWithout(ord, w), Drop(E[w], X, fd))
    ELSE Out(TRUE, E, ord, X)

RECURSIVE DropAll(_, _, _, _)
\* the map itself going out of scope: every thumbnail is dropped, each drop
\* failing at step fd
DropAll(E, ord, X, fd) ==
    IF ord = <<>> THEN X
    ELSE DropAll(E, Tail(ord), Drop(E[Head(ord)], X, fd), fd)

(* ------------------------------ get_eves ------------------------------- *)
RECURSIVE ScanFrom(_, _, _, _, _, _, _, _)
\* lines 618-623: the loop of get_eves over the client list, from its k-th
\* window on; the creation for window number fw fails at step f
ScanFrom(W, list, k, E, X, fw, f, fd) ==
    IF k > Len(list) THEN Out(TRUE, E, <<>>, X)
    ELSE LET w == list[k]
             r == check_and_create_window(w, W[w], X, IF fw = k THEN f ELSE 0, fd)
         IN IF ~r.ok THEN Out(FALSE, E, <<>>, r.X)
            ELSE ScanFrom(W, list, k + 1,
                          IF r.thumb = Nothing THEN E ELSE Put(E, w, r.thumb[1]),
                          r.X, fw, f, fd)

\* get_eves (lines 599-626) on the display W: list the client windows, create,
\* flush.  fw = -1: the client list cannot be read; fw = Len(list) + 1: the
\* flush fails.  On an error the map built so far goes out of scope.
get_eves(W, list, X, fw, f, fd) ==
    IF fw = -1 THEN Out(FALSE, NoEves, <<>>, X)
    ELSE LET r == ScanFrom(W, list, 1, NoEves, X, fw, f, fd)
             made == SelectSeq(list, LAMBDA w : w \in DOMAIN r.eves)
         IN IF r.ok /\ fw # Len(list) + 1 THEN r
            ELSE Out(FALSE, NoEves, <<>>, DropAll(r.eves, made, r.X, fd))

(* ----------------------------- handle_event ---------------------------- *)
\* Each arm of the match of handle_event (lines 635-746) is an operator on the
\* registry (E, ord) and the world X; f, cf, fv and fd name the failing step.

\* handle_CreateNotify with the entry of the window taken out of the registry
\* before the creation is tried
handle_CreateNotify_evicting(E, ord, X, w, win, f, fd, p) ==
    LET r == check_and_create_window(w, win, X, f, fd)
    IN IF ~r.ok THEN Out(FALSE, Without(E, w), SeqWithout(ord, w), r.X)
       ELSE IF r.thumb = Nothing THEN Out(TRUE, E, ord, r.X)
       ELSE Insert(E, ord, w, r.thumb[1], r.X, p, fd)

\* lines 646-650, on the window w whose title and owner are win
handle_CreateNotify(E, ord, X, w, win, f, fd, p) ==
    LET r == check_and_create_window(w, win, X, f, fd)
    IN IF ~r.ok THEN Out(FALSE, E, ord, r.X)
       ELSE IF r.thumb = Nothing THEN Out(TRUE, E, ord, r.X)
       ELSE Insert(E, ord, w, r.thumb[1], r.X, p, fd)

\* lines 651-653
handle_DestroyNotify(E, ord, X, w, fd) == Remove(E, ord, w, X, fd)

\* handle_PropertyNotify_name building a thumbnail anew on every title change,
\* tracked window or not
handle_PropertyNotify_name_recreating(E, ord, X, w, win, f, cf, fd, p) ==
    IF f \in 1..3 THEN Out(FALSE, E, ord, X)
    ELSE handle_CreateNotify(E, ord, X, w, win, cf, fd, p)

\* lines 654-671: PropertyNotify for WM_NAME.  f counts the steps of the arm
\* itself: the three intern_atom (1-3), is_window_eve (4), update_name (5, 6);
\* cf those of check_and_create_window.
handle_PropertyNotify_name(E, ord, X, w, win, f, cf, fd, p) ==
    LET name == is_window_eve(win.title)
        tracked == w \in DOMAIN E
    IN  IF f \in 1..3 THEN Out(FALSE, E, ord, X)
        ELSE IF tracked /\ f = 4 THEN Out(FALSE, E, ord, X)
        ELSE IF tracked /\ name # Nothing
        THEN LET r == update_name([E[w] EXCEPT !.character_name = name[1]],
                                  X, Sub(f, 4, 2))
             IN Out(r.ok, Put(E, w, r.t), ord, r.X)
        ELSE handle_CreateNotify(E, ord, X, w, win, cf, fd, p)

\* lines 672-681: PropertyNotify for _NET_WM_STATE; hidden: the property lists
\* _NET_WM_STATE_HIDDEN.  f: the three intern_atom (1-3), get_property (4),
\* minimized (5-13).
handle_PropertyNotify_state(E, ord, X, w, hidden, f) ==
    IF f \in 1..3 THEN Out(FALSE, E, ord, X)
    ELSE IF w \notin DOMAIN E THEN Out(TRUE, E, ord, X)
    ELSE IF f = 4 THEN Out(FALSE, E, ord, X)
    ELSE IF ~hidden THEN Out(TRUE, E, ord, X)
    ELSE LET m == minimized(E[w], X, Sub(f, 4, 9))
         IN Out(m.ok, Put(E, w, m.t), ord, m.X)

RECURSIVE VisAllFrom(_, _, _, _, _, _)
\* lines 689-691 and 700-702: `for thumbnail in eves.values_mut()
\* { thumbnail.visibility(v)?; }` from the k-th thumbnail on; the request for
\* thumbnail number fv fails
VisAllFrom(E, ord, k, v, X, fv) ==
    IF k > Len(ord) THEN Out(TRUE, E, ord, X)
    ELSE LET r == visibility(E[ord[k]], v, X, IF fv = k THEN 1 ELSE 0)
             E1 == Put(E, ord[k], r.t)
         IN IF ~r.ok THEN Out(FALSE, E1, ord, r.X)
            ELSE VisAllFrom(E1, ord, k + 1, v, r.X, fv)

\* handle_FocusIn without the loop of lines 688-692
handle_FocusIn_unrevealing(E, ord, X, hide, w, f, fv) ==
    IF w \notin DOMAIN E THEN Out(TRUE, E, ord, X)
    ELSE LET b == border([E[w] EXCEPT !.minimized = FALSE, !.focused = TRUE],
                         TRUE, X, f)
         IN Out(b.ok, Put(E, w, b.t), ord, b.X)

\* lines 683-694; f: the steps of border (1-3)
handle_FocusIn(E, ord, X, hide, w, f, fv) ==
    IF w \notin DOMAIN E THEN Out(TRUE, E, ord, X)
    ELSE LET b == border([E[w] EXCEPT !.minimized = FALSE, !.focused = TRUE],
                         TRUE, X, f)
             E1 == Put(E, w, b.t)
         IN IF ~b.ok THEN Out(FALSE, E1, ord, b.X)
            ELSE IF hide /\ \E k \in DOMAIN E1 : ~E1[k].visible
            THEN VisAllFrom(E1, ord, 1, TRUE, b.X, fv)
            ELSE Out(TRUE, E1, ord, b.X)

\* handle_FocusOut hiding whatever the configuration says
handle_FocusOut_always(E, ord, X, hide, w, f, fv) ==
    IF w \notin DOMAIN E THEN Out(TRUE, E, ord, X)
    ELSE LET b == border([E[w] EXCEPT !.focused = FALSE], FALSE, X, f)
             E1 == Put(E, w, b.t)
         IN IF ~b.ok THEN Out(FALSE, E1, ord, b.X)
            ELSE IF \A k \in DOMAIN E1 : ~E1[k].focused /\ ~E1[k].minimized
            THEN VisAllFrom(E1, ord, 1, FALSE, b.X, fv)
            ELSE Out(TRUE, E1, ord, b.X)

\* lines 695-705; f: the steps of border (1-3)
handle_FocusOut(E, ord, X, hide, w, f, fv) ==
    IF w \notin DOMAIN E THEN Out(TRUE, E, ord, X)
    ELSE LET b == border([E[w] EXCEPT !.focused = FALSE], FALSE, X, f)
             E1 == Put(E, w, b.t)
         IN IF ~b.ok THEN Out(FALSE, E1, ord, b.X)
            ELSE IF hide /\ \A k \in DOMAIN E1 : ~E1[k].focused /\ ~E1[k].minimized
            THEN VisAllFrom(E1, ord, 1, FALSE, b.X, fv)
            ELSE Out(TRUE, E1, ord, b.X)

\* lines 706-716; f = 1: get_geometry fails
handle_ButtonPress(E, ord, X, x, y, f) ==
    LET hit == Find(ord, { k \in DOMAIN E : E[k].visible /\ is_hovered(E[k], x, y) })
    IN IF hit = Nothing THEN Out(TRUE, E, ord, X)
       ELSE IF f = 1 THEN Out(FALSE, E, ord, X)
       ELSE LET t == E[hit[1]]
                geom == X.xwin[t.window]
            IN Out(TRUE,
                   Put(E, hit[1],
                       [t EXCEPT !.input_state =
                           [dragging |-> TRUE, drag_start |-> <<x, y>>,
                            win_start |-> <<geom.x, geom.y>>]]),
                   ord, X)

\* lines 717-730; f: the steps of focus (1-3)
handle_ButtonRelease(E, ord, X, x, y, detail, f) ==
    LET hit == Find(ord, { k \in DOMAIN E :
                   /\ E[k].visible
                   /\ E[k].input_state.dragging
                   /\ is_hovered(E[k], x, y) })
    IN IF hit = Nothing THEN Out(TRUE, E, ord, X)
       ELSE LET t == E[hit[1]]
                done == Put(E, hit[1], [t EXCEPT !.input_state.dragging = FALSE])
            IN IF detail = 1 /\ t.input_state.drag_start = <<x, y>>
               THEN LET r == focus(t, X, f)
                    IN IF r.ok THEN Out(TRUE, done, ord, r.X)
                       ELSE Out(FALSE, E, ord, r.X)
               ELSE Out(TRUE, done, ord, X)

\* lines 731-744; f: the steps of reposition (1-2)
handle_MotionNotify(E, ord, X, x, y, f) ==
    LET hit == Find(ord, { k \in DOMAIN E :
                   /\ E[k].visible
                   /\ E[k].input_state.dragging
                   /\ is_hovered(E[k], x, y) })
    IN IF hit = Nothing THEN Out(TRUE, E, ord, X)
       ELSE LET t == E[hit[1]]
                dx == AsI16(x - t.input_state.drag_start[1])
                dy == AsI16(y - t.input_state.drag_start[2])
                new_x == AsI16(t.input_state.win_start[1] + dx)
                new_y == AsI16(t.input_state.win_start[2] + dy)
                r == reposition(t, new_x, new_y, X, f)
            IN Out(r.ok, Put(E, hit[1], r.t), ord, r.X)

\* lines 636-645; f: the steps of update (1-4), damage_subtract (5), flush (6)
handle_DamageNotify(E, ord, X, d, f) ==
    LET hit == Find(ord, { k \in DOMAIN E : E[k].damage = d })
    IN IF hit = Nothing THEN Out(TRUE, E, ord, X)
       ELSE LET u == update(E[hit[1]], X, Sub(f, 0, 4))
            IN Out(f = 0, E, ord, u.X)

(* ------------------------------- main ---------------------------------- *)
\* other-owned windows never select PropertyNotify (line 569 returns before
\* line 576): their title is not observed and is kept fixed
WinRecs == { r \in [title : Titles, owner : Owners] : r.owner = "other" => r.title = EVE }

Live == DOMAIN wins

Init ==
    /\ pc = "start"
    /\ \E S \in SUBSET Wins : wins \in [S -> WinRecs]
    /\ early \in { S \in SUBSET DOMAIN wins : Cardinality(S) <= 1 }
    /\ config \in [hide_when_no_focus : BOOLEAN]
    /\ env = DefaultEnv
    /\ eves = NoEves
    /\ order = <<>>
    /\ res = {}
    /\ xwin = <<>>
    /\ reqs = <<>>
    /\ held = 0
    /\ faults = 0

\* a display whose windows stay: the first titled "EVE", the others "EVE - A"
InitStatic ==
    /\ pc = "start"
    /\ wins = [w \in Wins |-> [title |-> IF w = 1 THEN EVE ELSE EvePrefix \o <<"A">>,
                                owner |-> "wine"]]
    /\ early = {}
    /\ config \in [hide_when_no_focus : BOOLEAN]
    /\ env = DefaultEnv
    /\ eves = NoEves
    /\ order = <<>>
    /\ res = {}
    /\ xwin = <<>>
    /\ reqs = <<>>
    /\ held = 0
    /\ faults = 0

\* a display of one window whose WM_NAME is any of WmNames
InitClassify ==
    /\ pc = "start"
    /\ \E v \in WmNames, o \in Owners :
           wins = [w \in {1} |-> [title |-> from_utf8_lossy(v), owner |-> o]]
    /\ early = {}
    /\ config \in [hide_when_no_focus : BOOLEAN]
    /\ env = DefaultEnv
    /\ eves = NoEves
    /\ order = <<>>
    /\ res = {}
    /\ xwin = <<>>
    /\ reqs = <<>>
    /\ held = 0
    /\ faults = 0

\* the process before line 757, TEXT_FOREGROUND set to every alpha with every
\* value of one channel, for each of the three channels
InitConfig ==
    /\ pc = "config"
    /\ \E a \in 0..255, c \in 0..255, n \in {16, 8, 0} :
           env = [TEXT_FOREGROUND |-> ArgbWith(a, c, n)]
    /\ config = Nothing
    /\ wins = <<>>
    /\ early = {}
    /\ eves = NoEves
    /\ order = <<>>
    /\ res = {}
    /\ xwin = <<>>
    /\ reqs = <<>>
    /\ held = 0
    /\ faults = 0

\* Init with hide-mode disabled (line 111, HIDE_WHEN_NO_FOCUS not set or false)
InitShown ==
    /\ pc = "start"
    /\ \E S \in SUBSET Wins : wins \in [S -> WinRecs]
    /\ early \in { S \in SUBSET DOMAIN wins : Cardinality(S) <= 1 }
    /\ config = [hide_when_no_focus |-> FALSE]
    /\ env = DefaultEnv
    /\ eves = NoEves
    /\ order = <<>>
    /\ res = {}
    /\ xwin = <<>>
    /\ reqs = <<>>
    /\ held = 0
    /\ faults = 0

\* the failing steps an input may choose among, `used` telling whether another
\* input of the same event fails already: none once the budget is spent
Fails(S, used) ==
    IF faults + (IF used # 0 THEN 1 ELSE 0) < MaxFaults THEN S ELSE {0}

\* a failing release was reached
DropFailed(X) ==
    \E i \in DOMAIN X.reqs :
        ~X.reqs[i].ok /\ X.reqs[i].op \in { DropSteps[k].op : k \in DOMAIN DropSteps }

\* the outcome r of an event becomes the state; f and fd are the failing steps
\* chosen for the handler and for a drop, which must have been reached
Commit(r, f, fd) ==
    /\ (f # 0) = ~r.ok
    /\ (fd # 0) => DropFailed(r.X)
    /\ eves' = r.eves
    /\ order' = r.order
    /\ res' = r.X.res
    /\ xwin' = r.X.xwin
    /\ reqs' = r.X.reqs
    /\ faults' = faults + (IF f # 0 THEN 1 ELSE 0) + (IF fd # 0 THEN 1 ELSE 0)

\* the loop with `handle_event(...)?` in place of lines 777-778
AfterHandling_propagated(ok) == IF ok THEN "loop" ELSE "exited"

\* lines 777-778: `let _ = handle_event(...).inspect_err(...)`: the Result is
\* logged and discarded, the loop goes on
AfterHandling(ok) == "loop"

\* one turn of the loop whose handling yields r
Turn(r, f, fd) ==
    /\ Commit(r, f, fd)
    /\ pc' = AfterHandling(r.ok)

\* line 757, Config::new (lines 91-115) with HIDE_WHEN_NO_FOCUS not set
ConfigNew ==
    /\ pc = "config"
    /\ pc' = "configured"
    /\ config' = [hide_when_no_focus |-> FALSE,
                  text_foreground |-> premultiply_argb32(env.TEXT_FOREGROUND)]
    /\ UNCHANGED <<wins, eves, order, res, xwin, reqs, early, env, held, faults>>

\* construction needs a free identifier
CanConstruct(win) ==
    (IsCandidate(win.owner) /\ is_window_eve(win.title) # Nothing)
        => Ids \ InUse(World) # {}

\* line 774: `get_eves(...)?`: an error of the scan ends the process
Startup ==
    /\ pc = "start"
    /\ \E list \in Orders(Live), fw \in Fails(-1..(MaxWin + 1), 0) :
       \E f \in IF fw \in 1..MaxWin THEN CreateFails \ {0} ELSE {0},
          fd \in Fails(DropFails, fw) :
         LET r == get_eves(wins, list, World, fw, f, fd)
         IN /\ pc' = IF r.ok THEN "loop" ELSE "aborted"
            /\ \E o \in Orders(DOMAIN r.eves) :
                 Commit([r EXCEPT !.order = o], fw, fd)
    /\ UNCHANGED <<wins, early, config, env, held>>

\* line 776: `conn.wait_for_event()?` fails when the session is lost; no
\* request reaches the server any more, the registry is dropped on the way out
SessionLost ==
    /\ pc = "loop"
    /\ pc' = "exited"
    /\ eves' = NoEves
    /\ order' = <<>>
    /\ LET X == DropAll(eves, order, World, 1)
       IN res' = X.res /\ xwin' = X.xwin /\ reqs' = X.reqs
    /\ UNCHANGED <<wins, early, config, env, held, faults>>

\* lines 776-778: the window w appears on the display, or it is one of `early`,
\* whose notification was queued before the scan; its CreateNotify is handled
CreateNotify(w) ==
    /\ pc = "loop"
    /\ \E win \in WinRecs, f \in Fails(CreateFails, 0) :
       \E fd \in IF w \in DOMAIN eves \/ f >= AtUpdateName THEN Fails(DropFails, f)
                 ELSE {0},
          p \in IF w \in DOMAIN eves \/ f # 0 THEN {0} ELSE 0..Len(order) :
         /\ \/ /\ w \notin Live
               /\ wins' = Put(wins, w, win)
               /\ early' = early
            \/ /\ w \in early
               /\ win = wins[w]
               /\ wins' = wins
               /\ early' = early \ {w}
         /\ CanConstruct(win)
         /\ LET r == handle_CreateNotify(eves, order, World, w, win, f, fd, p)
            IN /\ (p # 0) => r.order # order
               /\ Turn(r, f, fd)
    /\ UNCHANGED <<config, env, held>>

\* the window w is destroyed; its DestroyNotify is handled
DestroyNotify(w) ==
    /\ pc = "loop"
    /\ w \in Live \ early
    /\ wins' = Without(wins, w)
    /\ \E fd \in IF w \in DOMAIN eves THEN Fails(DropFails, 0) ELSE {0} :
         Turn(handle_DestroyNotify(eves, order, World, w, fd), 0, fd)
    /\ UNCHANGED <<early, config, env, held>>

\* the title of the window w is set; its PropertyNotify is handled
PropertyNotifyName(w) ==
    /\ pc = "loop"
    /\ w \in Live
    /\ IsCandidate(wins[w].owner)
    /\ \E title \in Titles, f \in Fails(0..6, 0) :
       \E cf \in IF f = 0 THEN Fails(CreateFails, 0) ELSE {0} :
       \E fd \in IF cf >= AtUpdateName THEN Fails(DropFails, cf) ELSE {0},
          p \in IF w \in DOMAIN eves \/ f # 0 \/ cf # 0 THEN {0} ELSE 0..Len(order) :
         LET win == [wins[w] EXCEPT !.title = title]
             r == handle_PropertyNotify_name(eves, order, World, w, win, f, cf, fd, p)
         IN /\ wins' = Put(wins, w, win)
            /\ w \notin DOMAIN eves => CanConstruct(win)
            /\ (p # 0) => r.order # order
            /\ Turn(r, f + cf, fd)
    /\ UNCHANGED <<early, config, env, held>>

\* _NET_WM_STATE of the window w is set; its PropertyNotify is handled
PropertyNotifyState(w) ==
    /\ pc = "loop"
    /\ w \in Live
    /\ IsCandidate(wins[w].owner)
    /\ \E hidden \in BOOLEAN, f \in Fails(0..13, 0) :
         Turn(handle_PropertyNotify_state(eves, order, World, w, hidden, f), f, 0)
    /\ UNCHANGED <<wins, early, config, env, held>>

\* the window w gains the input focus; its FocusIn is handled
FocusIn(w) ==
    /\ pc = "loop"
    /\ w \in Live
    /\ \E f \in Fails(0..3, 0) : \E fv \in IF f = 0 THEN Fails(0..MaxWin, 0) ELSE {0} :
         Turn(handle_FocusIn(eves, order, World, config.hide_when_no_focus,
                               w, f, fv), f + fv, 0)
    /\ UNCHANGED <<wins, early, config, env, held>>

\* the window w loses the input focus; its FocusOut is handled
FocusOut(w) ==
    /\ pc = "loop"
    /\ w \in Live
    /\ \E f \in Fails(0..3, 0) : \E fv \in IF f = 0 THEN Fails(0..MaxWin, 0) ELSE {0} :
         Turn(handle_FocusOut(eves, order, World, config.hide_when_no_focus,
                                w, f, fv), f + fv, 0)
    /\ UNCHANGED <<wins, early, config, env, held>>

\* a button goes down at (x, y)
ButtonPress(x, y, detail) ==
    /\ pc = "loop"
    /\ held = 0
    /\ held' = detail
    /\ \E f \in Fails(0..1, 0) :
         Turn(handle_ButtonPress(eves, order, World, x, y, f), f, 0)
    /\ UNCHANGED <<wins, early, config, env>>

\* the button held goes up at (x, y)
ButtonRelease(x, y, detail) ==
    /\ pc = "loop"
    /\ held = detail
    /\ held' = 0
    /\ \E f \in Fails(0..3, 0) :
         Turn(handle_ButtonRelease(eves, order, World, x, y, detail, f), f, 0)
    /\ UNCHANGED <<wins, early, config, env>>

\* the pointer moves to (x, y)
MotionNotify(x, y) ==
    /\ pc = "loop"
    /\ \E f \in Fails(0..2, 0) :
         Turn(handle_MotionNotify(eves, order, World, x, y, f), f, 0)
    /\ UNCHANGED <<wins, early, config, env, held>>

\* the source window of the subscription d changed
DamageNotify(d) ==
    /\ pc = "loop"
    /\ Handle("damage", d) \in res
    /\ \E f \in Fails(0..6, 0) :
         Turn(handle_DamageNotify(eves, order, World, d, f), f, 0)
    /\ UNCHANGED <<wins, early, config, env, held>>

\* lines 775-779: wait for an event, dispatch it, whatever its handling returns
Next ==
    \/ Startup
    \/ SessionLost
    \/ \E w \in Wins : CreateNotify(w)
    \/ \E w \in Wins : DestroyNotify(w)
    \/ \E w \in Wins : PropertyNotifyName(w)
    \/ \E w \in Wins : PropertyNotifyState(w)
    \/ \E w \in Wins : FocusIn(w)
    \/ \E w \in Wins : FocusOut(w)
    \/ \E x \in Xs, y \in Ys, b \in Buttons : ButtonPress(x, y, b)
    \/ \E x \in Xs, y \in Ys, b \in Buttons : ButtonRelease(x, y, b)
    \/ \E x \in Xs, y \in Ys : MotionNotify(x, y)
    \/ \E d \in Ids : DamageNotify(d)

Spec == Init /\ [][Next]_vars

\* The windows of the display come, go and are renamed
NextLifecycle ==
    \/ Startup
    \/ SessionLost
    \/ \E w \in Wins : CreateNotify(w)
    \/ \E w \in Wins : DestroyNotify(w)
    \/ \E w \in Wins : PropertyNotifyName(w)

SpecLifecycle == Init /\ [][NextLifecycle]_vars

\* Focus changes, window state changes and repaints over a static display
NextFocus ==
    \/ Startup
    \/ SessionLost
    \/ \E w \in Wins : PropertyNotifyState(w)
    \/ \E w \in Wins : FocusIn(w)
    \/ \E w \in Wins : FocusOut(w)
    \/ \E d \in Ids : DamageNotify(d)

SpecFocus == InitStatic /\ [][NextFocus]_vars

\* Pointer input over a static display
NextPointer ==
    \/ Startup
    \/ SessionLost
    \/ \E x \in Xs, y \in Ys, b \in Buttons : ButtonPress(x, y, b)
    \/ \E x \in Xs, y \in Ys, b \in Buttons : ButtonRelease(x, y, b)
    \/ \E x \in Xs, y \in Ys : MotionNotify(x, y)

SpecPointer == InitStatic /\ [][NextPointer]_vars

\* Title changes, focus changes, window state changes and repaints over a
\* display whose windows stay
NextTitles ==
    \/ Startup
    \/ SessionLost
    \/ \E w \in Wins : PropertyNotifyName(w)
    \/ \E w \in Wins : PropertyNotifyState(w)
    \/ \E w \in Wins : FocusIn(w)
    \/ \E w \in Wins : FocusOut(w)
    \/ \E d \in Ids : DamageNotify(d)

SpecTitles == InitStatic /\ [][NextTitles]_vars

\* Windows come and go, gain and lose the focus and are hidden, in runs in
\* which no request fails
NextQuiet ==
    \/ Startup /\ faults' = 0
    \/ \E w \in Wins : CreateNotify(w) /\ faults' = 0
    \/ \E w \in Wins : DestroyNotify(w) /\ faults' = 0
    \/ \E w \in Wins : PropertyNotifyState(w) /\ faults' = 0
    \/ \E w \in Wins : FocusIn(w) /\ faults' = 0
    \/ \E w \in Wins : FocusOut(w) /\ faults' = 0

SpecQuiet == Init /\ [][NextQuiet]_vars

\* Windows come and go, gain and lose the focus and are hidden, with hide-mode
\* disabled
NextShown ==
    \/ Startup
    \/ SessionLost
    \/ \E w \in Wins : CreateNotify(w)
    \/ \E w \in Wins : DestroyNotify(w)
    \/ \E w \in Wins : PropertyNotifyState(w)
    \/ \E w \in Wins : FocusIn(w)
    \/ \E w \in Wins : FocusOut(w)

SpecShown == InitShown /\ [][NextShown]_vars

\* The construction of the configuration
SpecConfig == InitConfig /\ [][ConfigNew]_vars

\* The scan of a display of one window of any title
SpecClassify == InitClassify /\ [][Startup]_vars

(* ------------------------------ properties ----------------------------- *)
\* the live source windows that qualify: candidate process, title "EVE" or
\* "EVE - <name>"
Qualifying ==
    { w \in Live : IsCandidate(wins[w].owner) /\ is_window_eve(wins[w].title) # Nothing }

\* the handles owned by the thumbnails of a registry
Owned(E) == UNION { HandlesOf(E[w]) : w \in DOMAIN E }

ReleaseSteps == 1..(Len(DropSteps) - 1)

IsRelease(r) == \E k \in ReleaseSteps : DropSteps[k].op = r.op /\ DropSteps[k].kind = r.kind

\* the activation broadcasts of a log
Activations(log) == SelectSeq(log, LAMBDA r : r.op = "send_event")

\* the map and unmap requests of a log
Mappings(log) == SelectSeq(log, LAMBDA r : r.op \in {"map_window", "unmap_window"})

\* the log holds one update() of thumbnail t, capture then overlay, and no
\* drawing into the offscreen buffer of t comes after it
UpdatedOnce(log, t) ==
    LET caps == { i \in DOMAIN log :
                    log[i].op = "capture" /\ log[i].id = t.dst_picture }
    IN /\ Cardinality(caps) = 1
       /\ \A i \in caps :
             /\ i < Len(log)
             /\ log[i + 1].op = "overlay"
             /\ log[i + 1].id = t.dst_picture
             /\ \A j \in DOMAIN log :
                   log[j].kind \in {"overlay_picture", "overlay_pixmap"} => j < i

ThumbKindSet == { ThumbKinds[k] : k \in DOMAIN ThumbKinds }

Hidden(E, X) == \A k \in DOMAIN E : ~E[k].visible /\ ~X.xwin[E[k].window].mapped

Shown(E, X) == \A k \in DOMAIN E : E[k].visible /\ X.xwin[E[k].window].mapped

\* C1: while no request has failed, between two events the keys of the
\* registry are exactly the live source windows that qualify (a window whose
\* title is no longer "EVE" or "EVE - <name>" does not qualify); the registry
\* being a map, no window has two thumbnails.
C1_RegistryIsQualifying ==
    (pc = "loop" /\ faults = 0) => DOMAIN eves = Qualifying

\* C2: handling the creation of a window in a state where every handle on the
\* server is owned by a thumbnail of the registry leads to such a state again,
\* whichever step of the creation fails.
C2_CreationLeaksNothing ==
    (pc = "loop" /\ res \subseteq Owned(eves)) =>
        \A w \in Wins \ Live, win \in WinRecs, f \in 0..Len(CreateSteps) :
            CanConstruct(win) =>
                LET r == handle_CreateNotify(eves, order, World, w, win, f, 0, 0)
                IN r.X.res \subseteq Owned(r.eves)

\* C3: when a release of a thumbnail has failed while an event of the running
\* loop was handled, each of the eight releases of that thumbnail has been
\* attempted.
C3_ReleasesIndependent ==
    \A i \in DOMAIN reqs :
        (pc = "loop" /\ IsRelease(reqs[i]) /\ ~reqs[i].ok) =>
            \A k \in ReleaseSteps :
                \E j \in DOMAIN reqs :
                    /\ reqs[j].op = DropSteps[k].op
                    /\ reqs[j].kind = DropSteps[k].kind
                    /\ reqs[j].id = reqs[i].id

C5_ScanFailureNotFatal ==
    pc = "start" =>
        \A list \in Orders(Live) :
            \A k \in 1..Len(list), f \in 1..Len(CreateSteps) :
                LET r == get_eves(wins, list, World, k, f, 0)
                IN /\ r.ok
                   /\ Qualifying \ {list[k]} \subseteq DOMAIN r.eves

\* C6: when the creation of a thumbnail triggered by the CreateNotify of a
\* window (new, or listed before the scan) or by the title change of an
\* untracked window fails, at whichever step, the registry and its iteration
\* order after the event are those before it.
C6_FailedCreationKeepsRegistry ==
    pc = "loop" =>
        \A w \in Wins, f \in CreateFails \ {0} :
          \A fd \in IF f >= AtUpdateName THEN DropFails ELSE {0} :
            /\ \A win \in IF w \notin Live THEN WinRecs
                           ELSE IF w \in early THEN {wins[w]} ELSE {} :
                 CanConstruct(win) =>
                     LET c == handle_CreateNotify(eves, order, World, w, win, f, fd, 0)
                     IN ~c.ok => (c.eves = eves /\ c.order = order)
            /\ (w \in Live \ DOMAIN eves /\ IsCandidate(wins[w].owner)) =>
                 \A title \in Titles :
                     LET win == [wins[w] EXCEPT !.title = title]
                         n == handle_PropertyNotify_name(eves, order, World, w, win,
                                                         0, f, fd, 0)
                     IN CanConstruct(win) =>
                            (~n.ok => (n.eves = eves /\ n.order = order))

\* C6 witness: the loop is running with thumbnails in the registry and a font
\* on the server, which only a creation that failed after line 589 leaves
C6_Witness ==
    /\ pc = "loop"
    /\ eves # NoEves
    /\ \E n \in Ids : Handle("font", n) \in res

\* C7: visibility(v) with v the current flag issues no request and changes
\* nothing; two calls of visibility(v) in a row issue at most one request,
\* whether or not a request fails.
C7_VisibilityIdempotent ==
    \A w \in DOMAIN eves :
        /\ \A f \in 0..1 :
             visibility(eves[w], eves[w].visible, World, f)
                 = [ok |-> TRUE, t |-> eves[w], X |-> World]
        /\ \A v \in BOOLEAN, f1 \in 0..1, f2 \in 0..1 :
             LET r1 == visibility(eves[w], v, World, f1)
                 r2 == visibility(r1.t, v, r1.X, f2)
             IN Len(Mappings(r2.X.reqs)) <= 1

\* C7 witness: in hide mode a FocusOut has just been handled while both
\* thumbnails were hidden already: visibility(false) ran on each of them and
\* the log holds the requests of border(false) alone
C7_Witness ==
    /\ pc = "loop"
    /\ faults = 0
    /\ config.hide_when_no_focus
    /\ Cardinality(DOMAIN eves) = 2
    /\ \A w \in DOMAIN eves :
         ~eves[w].visible /\ ~eves[w].focused /\ ~eves[w].minimized
    /\ Len(reqs) = 2
    /\ reqs[1].op = "render_composite"
    /\ reqs[1].arg = <<FALSE>>
    /\ reqs[2].op = "image_text8"

\* C8: in hide mode a FocusOut on a tracked window, handled without an error,
\* after which no thumbnail is focused or minimized leaves every thumbnail
\* hidden and its overlay unmapped; a FocusIn on a tracked window, handled
\* without an error, leaves every thumbnail visible and its overlay mapped.
C8_FocusHidesAndReveals ==
    (pc = "loop" /\ config.hide_when_no_focus) =>
        \A w \in DOMAIN eves :
            LET o == handle_FocusOut(eves, order, World, TRUE, w, 0, 0)
                i == handle_FocusIn(eves, order, World, TRUE, w, 0, 0)
            IN /\ (\A k \in DOMAIN o.eves :
                      ~o.eves[k].focused /\ ~o.eves[k].minimized)
                    => Hidden(o.eves, o.X)
               /\ Shown(i.eves, i.X)

\* C9: while no request has failed and no button is held, a press inside a
\* visible thumbnail followed by a release is answered by exactly one
\* activation of that thumbnail's source window when the release has the
\* coordinates of the press and button 1, and by none otherwise.
C9_ClickActivatesOnce ==
    (pc = "loop" /\ faults = 0 /\ held = 0) =>
        \A x \in Xs, y \in Ys :
            LET hit == Find(order, { k \in DOMAIN eves :
                                    eves[k].visible /\ is_hovered(eves[k], x, y) })
            IN hit # Nothing =>
                 \A x2 \in Xs, y2 \in Ys, b \in Buttons :
                     LET p == handle_ButtonPress(eves, order, World, x, y, 0)
                         r == handle_ButtonRelease(p.eves, p.order, p.X, x2, y2, b, 0)
                         sent == Activations(r.X.reqs)
                     IN IF <<x2, y2>> = <<x, y>> /\ b = 1
                        THEN Len(sent) = 1 /\ sent[1].id = eves[hit[1]].src
                        ELSE sent = <<>>

\* C10: while no request has failed, a MotionNotify anywhere while a thumbnail
\* is dragged moves its overlay to the window position of the drag start plus
\* (pointer - pointer of the drag start), and the stored position follows.
C10_MotionFollowsPointer ==
    (pc = "loop" /\ faults = 0) =>
        \A w \in DOMAIN eves :
            (eves[w].visible /\ eves[w].input_state.dragging) =>
                \A x \in Xs, y \in Ys :
                    LET t == eves[w]
                        r == handle_MotionNotify(eves, order, World, x, y, 0)
                        nx == t.input_state.win_start[1] + (x - t.input_state.drag_start[1])
                        ny == t.input_state.win_start[2] + (y - t.input_state.drag_start[2])
                    IN /\ r.X.xwin[t.window].x = nx
                       /\ r.X.xwin[t.window].y = ny
                       /\ r.eves[w].x = nx
                       /\ r.eves[w].y = ny

\* C11: handling a title change of a tracked window to a qualifying title
\* leaves the registry keys and their order, every server resource and every
\* field of every thumbnail as they were, but for the stored name of that
\* window's thumbnail, which is the display name of the new title as soon as
\* the title has been read (whether the drawing of the name then fails or not);
\* no request of the handler creates or releases anything.
C11_RenameKeepsThumbnail ==
    pc = "loop" =>
        \A w \in DOMAIN eves, title \in Titles, f \in 0..6 :
            is_window_eve(title) # Nothing =>
                LET win == [wins[w] EXCEPT !.title = title]
                    r == handle_PropertyNotify_name(eves, order, World, w, win, f, 0, 0, 0)
                    stored == IF f \in 1..4 THEN eves[w].character_name
                              ELSE is_window_eve(title)[1]
                IN /\ r.eves = [eves EXCEPT ![w].character_name = stored]
                   /\ r.order = order
                   /\ r.X.res = res
                   /\ r.X.xwin = xwin
                   /\ \A i \in DOMAIN r.X.reqs : r.X.reqs[i].op = "image_text8"

\* the title of window 1, "EVE" at startup, has just changed to "EVE - A"
\* while its thumbnail was focused: the handler drew the new name and nothing
\* else
C11_Witness ==
    /\ pc = "loop"
    /\ 1 \in DOMAIN eves
    /\ eves[1].focused
    /\ eves[1].character_name = <<"A">>
    /\ Len(reqs) = 1
    /\ reqs[1].op = "image_text8"
    /\ reqs[1].ok
    /\ reqs[1].arg = <<"A">>

\* C12: the display name is a function of the title that is defined for every
\* title: the title "EVE" yields the empty name, a title that begins with
\* "EVE - " yields the characters after these six, every other title yields
\* none; the scan makes a thumbnail of a candidate window exactly when its
\* title yields a name, and the thumbnail is stored under that name.
C12_DisplayName ==
    \A w \in Live :
        LET title == wins[w].title
            name == is_window_eve(title)
            prefixed == /\ Len(title) >= Len(EvePrefix)
                        /\ \A i \in DOMAIN EvePrefix : title[i] = EvePrefix[i]
        IN /\ title = EVE => name = Some(<<>>)
           /\ prefixed =>
                 name = Some([i \in 1..(Len(title) - Len(EvePrefix)) |->
                                 title[i + Len(EvePrefix)]])
           /\ (title # EVE /\ ~prefixed) => name = Nothing
           /\ (pc = "loop" /\ IsCandidate(wins[w].owner)) =>
                 /\ w \in DOMAIN eves <=> name # Nothing
                 /\ w \in DOMAIN eves => eves[w].character_name = name[1]

\* the scan has made a thumbnail named "A A" of a window titled "EVE - A A"
C12_Witness ==
    /\ pc = "loop"
    /\ wins[1].title = EvePrefix \o <<"A", " ", "A">>
    /\ 1 \in DOMAIN eves
    /\ eves[1].character_name = <<"A", " ", "A">>

\* C13: premultiply_argb32 returns the alpha channel unchanged and each of R,
\* G and B as channel * alpha / 255 rounded down, which is at most the channel;
\* with alpha 255 the three channels are unchanged, with alpha 0 they are 0.
C13_Premultiply ==
    pc = "configured" =>
        LET in == env.TEXT_FOREGROUND
            out == config.text_foreground
            a == in[1] \div 256
        IN /\ out[1] \div 256 = a
           /\ \A n \in {0, 8, 16} :
                 LET c == Channel(in, n)
                     c_p == Channel(out, n)
                 IN /\ c_p = (c * a) \div 255
                    /\ c_p <= c
                    /\ a = 255 => c_p = c
                    /\ a = 0 => c_p = 0
           /\ out = Argb(a, Channel(out, 16), Channel(out, 8), Channel(out, 0))

\* 0x80FF8001 has been premultiplied to 0x80804000
C13_Witness ==
    /\ pc = "configured"
    /\ env.TEXT_FOREGROUND = Argb(128, 255, 128, 255)
    /\ config.text_foreground = Argb(128, 128, 64, 128)

\* C14: while no request has failed, whenever no button is held (before the
\* first press and after every release has been handled, wherever the pointer
\* was released) no thumbnail is in the dragging state.
C14_ReleaseEndsDrag ==
    (pc = "loop" /\ faults = 0 /\ held = 0) =>
        \A w \in DOMAIN eves : ~eves[w].input_state.dragging

\* C15: while no request has failed, the handling of a change notification of
\* a thumbnail, of a title change of its window to a qualifying title, of a
\* focus gained or lost by its window and of the hiding of its window issues
\* update() once, capture then overlay, after the last drawing into the
\* offscreen buffer.
C15_UpdateAfterDrawing ==
    (pc = "loop" /\ faults = 0) =>
        \A w \in DOMAIN eves :
            LET t == eves[w]
                hide == config.hide_when_no_focus
            IN /\ UpdatedOnce(handle_DamageNotify(eves, order, World, t.damage, 0).X.reqs, t)
               /\ UpdatedOnce(handle_PropertyNotify_state(eves, order, World, w, TRUE, 0).X.reqs, t)
               /\ \A title \in Titles :
                     is_window_eve(title) # Nothing =>
                         UpdatedOnce(handle_PropertyNotify_name(
                                         eves, order, World, w,
                                         [wins[w] EXCEPT !.title = title],
                                         0, 0, 0, 0).X.reqs, t)
               /\ UpdatedOnce(handle_FocusIn(eves, order, World, hide, w, 0, 0).X.reqs, t)
               /\ UpdatedOnce(handle_FocusOut(eves, order, World, hide, w, 0, 0).X.reqs, t)

\* C16: between two events the overlay window of every thumbnail of the
\* registry is mapped exactly when the thumbnail's visible flag is set.
C16_MappedIffVisible ==
    pc = "loop" =>
        \A w \in DOMAIN eves : eves[w].visible <=> xwin[eves[w].window].mapped

\* C17: with hide-mode enabled and while no request has failed, between two
\* events every thumbnail of the registry is hidden when none of them is
\* focused or minimized.
C17_HiddenWithoutFocus ==
    (pc = "loop" /\ faults = 0 /\ config.hide_when_no_focus) =>
        ((\A w \in DOMAIN eves : ~eves[w].focused /\ ~eves[w].minimized)
            => Hidden(eves, World))

\* C18: between two events no thumbnail of the registry is minimized while
\* the border is drawn in its offscreen buffer.
C18_NoBorderWhileMinimized ==
    pc = "loop" =>
        \A w \in DOMAIN eves : ~(eves[w].minimized /\ eves[w].offscreen.border)

\* C19: between two events the stored position of every thumbnail of the
\* registry is the position of the last create_window or configure_window
\* request issued for its overlay window, whichever request has failed.
C19_StoredPositionIsLastRequest ==
    pc = "loop" =>
        \A w \in DOMAIN eves :
            /\ eves[w].x = xwin[eves[w].window].x
            /\ eves[w].y = xwin[eves[w].window].y

C21_FocusShowsAll ==
    (pc = "loop" /\ faults = 0 /\ config.hide_when_no_focus) =>
        ((\E w \in DOMAIN eves : eves[w].focused) => Shown(eves, World))

\* in hide-mode a focus gained has just revealed two thumbnails that were
\* hidden: both overlay windows were mapped again
C21_Witness ==
    /\ pc = "loop"
    /\ faults = 0
    /\ config.hide_when_no_focus
    /\ Cardinality(DOMAIN eves) = 2
    /\ \E w \in DOMAIN eves : eves[w].focused
    /\ Cardinality({ i \in DOMAIN reqs : reqs[i].op = "map_window" /\ reqs[i].ok }) = 2
    /\ Shown(eves, World)

\* C22: while no request has failed, between two events at most one thumbnail
\* of the registry is in the dragging state.
C22_OneDragAtATime ==
    (pc = "loop" /\ faults = 0) =>
        Cardinality({ w \in DOMAIN eves : eves[w].input_state.dragging }) <= 1

\* C23: with hide-mode disabled every thumbnail of the registry has its
\* visible flag set and its overlay window mapped, and the requests of the
\* last event hold no unmap_window, whichever requests have failed.
C23_NeverHidden ==
    ~config.hide_when_no_focus =>
        /\ Shown(eves, World)
        /\ \A i \in DOMAIN reqs : reqs[i].op # "unmap_window"

\* with hide-mode disabled a focus lost has just been handled while no
\* thumbnail is focused or minimized, the case in which hide-mode hides: the
\* border was cleared and both thumbnails are tracked and shown
C23_Witness ==
    /\ pc = "loop"
    /\ ~config.hide_when_no_focus
    /\ Cardinality(DOMAIN eves) = 2
    /\ \A w \in DOMAIN eves : ~eves[w].focused /\ ~eves[w].minimized
    /\ Len(reqs) = 2
    /\ reqs[1].op = "render_composite"
    /\ reqs[1].arg = <<FALSE>>
    /\ reqs[1].ok
    /\ Shown(eves, World)
====
